---- MODULE Spec2Model ----
(***************************************************************************)
(* Model of src/vs/workbench/contrib/chat/browser/tools/tools.ts:          *)
(* BuiltinToolsContribution (registration of the vscode_editFile tool)   *)
(* and one invocation of EditTool.invoke, running against the services it  *)
(* is injected with.  The services (ignored files, code mapper, chat       *)
(* editing service, text file service) are the environment: their answers  *)
(* and the editing sessions' contents are chosen nondeterministically.     *)
(***************************************************************************)
EXTENDS Integers, Sequences, FiniteSets, TLC

\* ---------------------------------------------------------------- bounds
\* how many textEdit callbacks the mapper makes during one mapCode call
MaxEdits == 2
\* how many times the autorun installed by invoke calls resolve(true)
MaxFires == 2

\* ------------------------------------------------------------ vocabulary
\* URI.file(parameters.filePath), and some other resource
Uri == "file:///target"
OtherUri == "file:///other"
Uris == {Uri, OtherUri}

\* parameters.code
Code == "code"
\* the markdown code fence of lines 121 and 129
Fence == "fence"

\* invocation.context.sessionId (= model.sessionId) and another chat session
SessionId == "chat1"
OtherSessionId == "chat2"
ChatSessions == {SessionId, OtherSessionId}

\* an entry of an editing session, seen through find(e => e.modifiedURI = u):
\* no entry, an entry being modified, an entry not being modified
EntryStates == {"absent", "modifying", "idle"}
\* the autorun reads of an entry of another resource only that it is listed
EntryStatesOf(u) == IF u = Uri THEN EntryStates ELSE {"absent", "idle"}

\* what the mapper hands to its textEdit callback
MapperEdits == {<<Uri, "edits1">>, <<OtherUri, "edits2">>}

\* what mapCode resolves to: undefined, a result without and with errorMessage
MapResults == {"undefined", "ok", "error"}

VARIABLES
    registered,     \* what the tools service holds for vscode_editFile
    ctorPc,         \* position of BuiltinToolsContribution's life cycle
    pc,             \* position of EditTool.invoke
    hasContext,     \* invocation.context is set
    inside,         \* workspaceContextService.isInsideWorkspace(uri)
    ignoredRes,     \* what fileIsIgnored resolved to
    sessionCheck,   \* outcome of the test of line 132
    mapResult,      \* what mapCode resolved to (the local `result`)
    progress,       \* the progress events appended to the request
    mapperCalls,    \* the textEdit callbacks the mapper made, in order
    calls,          \* the collaborators called by invoke, in order
    error,          \* the error invoke threw
    result,         \* the IToolResult invoke returned
    current,        \* chatEditingService.currentEditingSession
    entries,        \* entries of each chat session's editing session
    autorun,        \* the autorun of line 151 is installed
    settledOn,      \* what the autorun read when it first called resolve
    fires,          \* how many times the autorun called resolve
    cancelledAt     \* when the token was cancelled: before or after mapCode
                    \* resolved

vars == <<registered, ctorPc, pc, hasContext, inside, ignoredRes, sessionCheck,
          mapResult, progress, mapperCalls, calls, error, result, current,
          entries, autorun, settledOn, fires, cancelledAt>>

invokeVars == <<pc, hasContext, inside, ignoredRes, sessionCheck, mapResult,
                progress, mapperCalls, calls, error, result>>
envVars == <<current, entries>>
waitVars == <<autorun, settledOn, fires>>
toolVars == <<registered, ctorPc>>

\* ------------------------------------------------------- progress events
Event(kind, uri, content, edits, done) ==
    [kind |-> kind, uri |-> uri, content |-> content, edits |-> edits, done |-> done]

\* lines 119-130
OpeningEvents ==
    << Event("markdownContent", "none", <<Fence>>, "none", FALSE),
       Event("codeblockUri", Uri, <<>>, "none", FALSE),
       Event("markdownContent", "none", <<Code, Fence>>, "none", FALSE) >>

\* line 140: the callback handed to mapCode
textEdit_usesOwnUri(p, target, edits) ==
    Append(p, Event("textEdit", Uri, <<>>, edits, FALSE))

textEdit(p, target, edits) ==
    Append(p, Event("textEdit", target, <<>>, edits, FALSE))

\* line 144
ClosingEvent == Event("textEdit", Uri, <<>>, "empty", TRUE)

\* the IToolResult of lines 163-165
SuccessResult == <<[kind |-> "text", value |-> "The file was edited successfully"]>>
NoResult == <<>>

\* -------------------------------------------- BuiltinToolsContribution
\* lines 34-35: what the constructor registers, in order
ctorOrder_implFirst == <<"toolImpl", "toolData">>

ctorOrder == <<"toolData", "toolImpl">>

Init ==
    /\ registered = {}
    /\ ctorPc = "line34"
    /\ pc = "idle"
    /\ hasContext = TRUE
    /\ inside = TRUE
    /\ ignoredRes = "unset"
    /\ sessionCheck = "unset"
    /\ mapResult = "unset"
    /\ progress = <<>>
    /\ mapperCalls = <<>>
    /\ calls = <<>>
    /\ error = "none"
    /\ result = NoResult
    /\ current = "none"
    /\ entries = [s \in ChatSessions |-> [u \in Uris |-> "absent"]]
    /\ autorun = FALSE
    /\ settledOn = [session |-> "none", entry |-> "none"]
    /\ fires = 0
    /\ cancelledAt = "never"

\* line 34: this._register(toolsService.registerToolData(editToolData))
RegisterFirst ==
    /\ ctorPc = "line34"
    /\ registered' = registered \cup {ctorOrder[1]}
    /\ ctorPc' = "line35"
    /\ UNCHANGED <<invokeVars, envVars, waitVars, cancelledAt>>

\* line 35: this._register(toolsService.registerToolImplementation(...))
RegisterSecond ==
    /\ ctorPc = "line35"
    /\ registered' = registered \cup {ctorOrder[2]}
    /\ ctorPc' = "constructed"
    /\ UNCHANGED <<invokeVars, envVars, waitVars, cancelledAt>>

\* Disposable.dispose(): every registration handed to _register is undone
Dispose ==
    /\ ctorPc = "constructed"
    /\ registered' = {}
    /\ ctorPc' = "disposed"
    /\ UNCHANGED <<invokeVars, envVars, waitVars, cancelledAt>>

\* ---------------------------------------------------- EditTool.invoke
\* lines 102-110: the two synchronous checks, in the order of the code
Preconditions_workspaceFirst(ctx, ins) ==
    IF ~ins THEN "outsideWorkspace" ELSE IF ~ctx THEN "noContext" ELSE "none"

Preconditions(ctx, ins) ==
    IF ~ctx THEN "noContext" ELSE IF ~ins THEN "outsideWorkspace" ELSE "none"

\* the collaborators lines 102-112 call for the outcome of the two checks
CallsOfPreconditions(e) ==
    IF e = "noContext" THEN <<>>
    ELSE IF e = "outsideWorkspace" THEN <<"isInsideWorkspace">>
    ELSE <<"isInsideWorkspace", "fileIsIgnored">>

\* lines 101-112: the tools service calls invoke of the registered
\* implementation; invoke runs up to its first await
Invoke(ctx, ins) ==
    /\ pc = "idle"
    /\ "toolImpl" \in registered
    /\ hasContext' = ctx
    /\ inside' = ins
    /\ LET e == Preconditions(ctx, ins) IN
         /\ error' = e
         /\ calls' = CallsOfPreconditions(e)
         /\ pc' = IF e = "none" THEN "fileIsIgnored" ELSE "thrown"
    /\ UNCHANGED <<ignoredRes, sessionCheck, mapResult, progress, mapperCalls,
                   result, toolVars, envVars, waitVars, cancelledAt>>

\* line 132: currentEditingSession?.chatSessionId !== model.sessionId
SessionMatches(cur) == cur = SessionId

\* lines 112-136: fileIsIgnored resolved; invoke runs up to the await of mapCode
FileIsIgnoredReturns(ign) ==
    /\ pc = "fileIsIgnored"
    /\ ignoredRes' = IF ign THEN "yes" ELSE "no"
    /\ IF ign
       THEN /\ error' = "ignored"
            /\ pc' = "thrown"
            /\ UNCHANGED <<sessionCheck, progress, calls>>
       ELSE /\ progress' = progress \o OpeningEvents
            /\ IF SessionMatches(current)
               THEN /\ sessionCheck' = "match"
                    /\ calls' = calls \o <<"getSession", "mapCode">>
                    /\ pc' = "mapCode"
                    /\ UNCHANGED error
               ELSE /\ sessionCheck' = "mismatch"
                    /\ calls' = Append(calls, "getSession")
                    /\ error' = "noEditingSession"
                    /\ pc' = "thrown"
    /\ UNCHANGED <<hasContext, inside, mapResult, mapperCalls, result,
                   toolVars, envVars, waitVars, cancelledAt>>

\* lines 139-141: the mapper calls the textEdit callback during mapCode
MapperTextEdit(target, edits) ==
    /\ pc = "mapCode"
    /\ Len(mapperCalls) < MaxEdits
    /\ mapperCalls' = Append(mapperCalls, <<target, edits>>)
    /\ progress' = textEdit(progress, target, edits)
    /\ UNCHANGED <<pc, hasContext, inside, ignoredRes, sessionCheck, mapResult,
                   calls, error, result, toolVars, envVars, waitVars, cancelledAt>>

\* lines 144-148: the closing textEdit event is appended whatever mapCode
\* resolved to, and only then is result?.errorMessage looked at
AfterMapCode_errorFirst(p, res) ==
    IF res = "error" THEN p ELSE Append(p, ClosingEvent)

AfterMapCode(p, res) == Append(p, ClosingEvent)

\* lines 152-154: the entry of the current editing session for the target uri
CurrentFile(cur, ents) == IF cur = "none" THEN "absent" ELSE ents[cur][Uri]

\* line 155: currentFile && !currentFile.isCurrentlyBeingModified.read(r)
WaitCondition_anyEntry(file) == file # "absent"

WaitCondition(file) == file # "absent" /\ file # "modifying"

NotSettled == [session |-> "none", entry |-> "none"]

\* lines 151-158: one run of the autorun against the state it reads;
\* resolve(true) settles the promise the first time it is called only
RunAutorun(cur, ents) ==
    LET file == CurrentFile(cur, ents) IN
    IF WaitCondition(file)
    THEN /\ fires < MaxFires
         /\ fires' = fires + 1
         /\ settledOn' = IF settledOn = NotSettled
                         THEN [session |-> cur, entry |-> file]
                         ELSE settledOn
    ELSE UNCHANGED <<settledOn, fires>>

\* lines 144-159: mapCode resolved; invoke runs up to the await of the
\* promise. autorun runs its function once when it is created.
MapCodeReturns(res) ==
    /\ pc = "mapCode"
    /\ mapResult' = res
    /\ progress' = AfterMapCode(progress, res)
    /\ IF res = "error"
       THEN /\ error' = "mapperError"
            /\ pc' = "thrown"
            /\ UNCHANGED waitVars
       ELSE /\ pc' = "wait"
            /\ autorun' = TRUE
            /\ RunAutorun(current, entries)
            /\ UNCHANGED error
    /\ UNCHANGED <<hasContext, inside, ignoredRes, sessionCheck, mapperCalls,
                   calls, result, toolVars, envVars, cancelledAt>>

\* line 150: the awaited promise has been resolved
PromiseSettled_orCancelled == settledOn # NotSettled \/ cancelledAt # "never"

PromiseSettled == settledOn # NotSettled

Count(seq, x) == Cardinality({i \in 1..Len(seq) : seq[i] = x})

\* lines 150-161: the continuation of the await runs once, after the promise
\* is settled, and calls textFileService.save(uri)
AwaitResolved_everyResolve ==
    /\ pc \in {"wait", "save", "returned"}
    /\ fires > Count(calls, "save")
    /\ calls' = Append(calls, "save")
    /\ pc' = "save"
    /\ UNCHANGED <<hasContext, inside, ignoredRes, sessionCheck, mapResult,
                   progress, mapperCalls, error, result, toolVars, envVars,
                   waitVars, cancelledAt>>

AwaitResolved ==
    /\ pc = "wait"
    /\ PromiseSettled
    /\ calls' = Append(calls, "save")
    /\ pc' = "save"
    /\ UNCHANGED <<hasContext, inside, ignoredRes, sessionCheck, mapResult,
                   progress, mapperCalls, error, result, toolVars, envVars,
                   waitVars, cancelledAt>>

\* lines 161-165: save resolved; invoke returns its result
SaveReturns ==
    /\ pc = "save"
    /\ result' = SuccessResult
    /\ pc' = "returned"
    /\ UNCHANGED <<hasContext, inside, ignoredRes, sessionCheck, mapResult,
                   progress, mapperCalls, calls, error, toolVars, envVars,
                   waitVars, cancelledAt>>

\* ------------------------------------------------- the environment
\* line 152: the autorun runs again when an observable it read changes
Rerun(cur, ents) ==
    IF autorun THEN RunAutorun(cur, ents) ELSE UNCHANGED <<settledOn, fires>>

\* the chat editing service replaces or clears its current editing session
SetCurrentEditingSession(s) ==
    /\ s # current
    /\ current' = s
    /\ Rerun(s, entries)
    /\ UNCHANGED <<entries, autorun, invokeVars, toolVars, cancelledAt>>

\* lines 153-155: the autorun read `entries` of the current session and
\* isCurrentlyBeingModified of the entry of the target uri
ReadByAutorun(s, u, old, new) ==
    s = current /\ (u = Uri \/ old = "absent" \/ new = "absent")

\* an editing session gains or loses an entry, or an entry starts or stops
\* being modified
SetEntry(s, u, st) ==
    /\ st # entries[s][u]
    /\ entries' = [entries EXCEPT ![s][u] = st]
    /\ IF ReadByAutorun(s, u, entries[s][u], st)
       THEN Rerun(current, entries')
       ELSE UNCHANGED <<settledOn, fires>>
    /\ UNCHANGED <<current, autorun, invokeVars, toolVars, cancelledAt>>

\* lines 112 and 142: the caller cancels the token it handed to invoke
Cancel ==
    /\ pc \notin {"idle", "returned", "thrown"}
    /\ cancelledAt = "never"
    /\ cancelledAt' = IF pc \in {"wait", "save"} THEN "afterMapCode"
                                                 ELSE "beforeMapCode"
    /\ UNCHANGED <<invokeVars, toolVars, envVars, waitVars>>

Next ==
    \/ RegisterFirst
    \/ RegisterSecond
    \/ Dispose
    \/ \E ctx \in BOOLEAN, ins \in BOOLEAN : Invoke(ctx, ins)
    \/ \E ign \in BOOLEAN : FileIsIgnoredReturns(ign)
    \/ \E e \in MapperEdits : MapperTextEdit(e[1], e[2])
    \/ \E res \in MapResults : MapCodeReturns(res)
    \/ AwaitResolved
    \/ SaveReturns
    \/ \E s \in ChatSessions \cup {"none"} : SetCurrentEditingSession(s)
    \/ \E s \in ChatSessions, u \in Uris :
          \E st \in EntryStatesOf(u) : SetEntry(s, u, st)
    \/ Cancel

Spec == Init /\ [][Next]_vars

\* every call invoke awaits returns, and a settled promise runs its
\* continuation; nothing obliges the editing sessions to change
FairSpec ==
    /\ Spec
    /\ WF_vars(\E ign \in BOOLEAN : FileIsIgnoredReturns(ign))
    /\ WF_vars(\E res \in MapResults : MapCodeReturns(res))
    /\ WF_vars(AwaitResolved)
    /\ WF_vars(SaveReturns)

\* ------------------------------------------------------------ claims
SaveCalled == Count(calls, "save") > 0

\* the events the callback of line 140 makes of the mapper's callbacks
MapperEvents ==
    [i \in 1..Len(mapperCalls) |->
        Event("textEdit", mapperCalls[i][1], <<>>, mapperCalls[i][2], FALSE)]

FullTranscript == OpeningEvents \o MapperEvents \o <<ClosingEvent>>

\* C1: once save has been called, the progress events of the request are
\* exactly: opening fence, codeblockUri, code and closing fence, one textEdit
\* per mapper callback in the mapper's order, one closing textEdit with
\* done = TRUE; this stays so after the save call, so nothing is appended
\* after it.
C1_ProgressFixedBeforeSave == SaveCalled => progress = FullTranscript

C1_Witness ==
    /\ pc = "returned"
    /\ mapperCalls = <<<<OtherUri, "edits2">>, <<Uri, "edits1">>>>

\* the first of the five failure conditions that holds, in the claimed order
FirstFailure ==
    IF ~hasContext THEN "noContext"
    ELSE IF ~inside THEN "outsideWorkspace"
    ELSE IF ignoredRes = "yes" THEN "ignored"
    ELSE IF sessionCheck = "mismatch" THEN "noEditingSession"
    ELSE IF mapResult = "error" THEN "mapperError"
    ELSE "none"

\* the collaborators called when the invocation ends with error e
CallsUpTo(e) ==
    IF e = "noContext" THEN <<>>
    ELSE IF e = "outsideWorkspace" THEN <<"isInsideWorkspace">>
    ELSE IF e = "ignored" THEN <<"isInsideWorkspace", "fileIsIgnored">>
    ELSE IF e = "noEditingSession"
         THEN <<"isInsideWorkspace", "fileIsIgnored", "getSession">>
    ELSE <<"isInsideWorkspace", "fileIsIgnored", "getSession", "mapCode">>

\* C2: the invocation fails with the first of the five conditions that
\* holds (context, workspace, ignored, editing session, mapper error); a
\* failed invocation has called the collaborators up to the failing check
\* and none after it, never save, and has no result; fileIsIgnored, mapCode
\* and save are each called at most once.
C2_FailFastChain ==
    /\ error = FirstFailure
    /\ error # "none" =>
          /\ pc = "thrown"
          /\ calls = CallsUpTo(error)
          /\ ~SaveCalled
          /\ result = NoResult
    /\ \A c \in {"fileIsIgnored", "mapCode", "save"} : Count(calls, c) <= 1

C2_Witness == pc = "thrown" /\ error = "noContext" /\ ~inside

\* C3: every precondition check, the editing-session check included, has
\* passed before the first progress event is appended, so an invocation
\* that fails a precondition check leaves the transcript untouched.
C3_ChecksBeforeProgress ==
    /\ progress # <<>> => sessionCheck = "match"
    /\ error \in {"noContext", "outsideWorkspace", "ignored", "noEditingSession"}
          => progress = <<>>

\* C4: save is called only after mapCode resolved without an error message
\* and after the autorun has read a current editing session holding an
\* entry for the target uri that is not being modified; as long as no such
\* state has been read, save is not called.
C4_SaveOnlyAfterIdleEntry ==
    SaveCalled =>
        /\ mapResult \in {"undefined", "ok"}
        /\ settledOn # NotSettled
        /\ settledOn.entry = "idle"

C4_Witness == SaveCalled /\ settledOn.entry = "idle" /\ mapResult = "ok"

\* C5: a token cancelled after mapCode resolved changes nothing: the
\* invocation does not fail, it goes on to save only once the promise has
\* been settled by the wait condition, it saves once and returns the
\* success result.
C5_LateCancelChangesNothing ==
    cancelledAt = "afterMapCode" =>
        /\ error = "none"
        /\ pc \in {"wait", "save", "returned"}
        /\ pc \in {"save", "returned"} =>
              settledOn # NotSettled /\ Count(calls, "save") = 1
        /\ pc = "returned" => result = SuccessResult

C5_Witness == cancelledAt = "afterMapCode" /\ pc = "returned"

C7_ClosingEventOnMapperError ==
    error = "mapperError" =>
        /\ pc = "thrown"
        /\ progress = FullTranscript
        /\ progress[Len(progress)] = ClosingEvent
        /\ ~autorun
        /\ ~SaveCalled
        /\ result = NoResult

C7_Witness == error = "mapperError" /\ Len(mapperCalls) = MaxEdits

\* C8: every invocation eventually returns or throws, given that every
\* call it awaits returns.
C8_InvokeCompletes == (pc # "idle") ~> (pc \in {"returned", "thrown"})

\* C9: save is called at most once, and the success result is returned
\* only after that one save resolved, however often the autorun calls
\* resolve.
C9_SaveAtMostOnce ==
    /\ Count(calls, "save") <= 1
    /\ result # NoResult =>
          /\ result = SuccessResult
          /\ pc = "returned"
          /\ Count(calls, "save") = 1

C9_Witness == pc = "returned" /\ fires >= 2

\* C10: when save is called, the editing session whose entry met the wait
\* condition belongs to the invoking chat session.
C10_SavedForInvokingSession == SaveCalled => settledOn.session = SessionId

====
